---- MODULE Spec2Model ----
(***************************************************************************)
(* A model of Tiled's LayerModel (src/tiled/layermodel.cpp): the list      *)
(* model over a map's layers, the two leaf undo commands SetLayerVisible   *)
(* and SetLayerOpacity, and the undo stack they are pushed on.             *)
(*                                                                         *)
(* Layer indices are 0-based as in the source; the layer at index i is     *)
(* element i + 1 of the sequence `layers`.  An opacity is an integer: a    *)
(* qreal (double) is any integer of 0..MaxOpacity, a float is an even one, *)
(* and the narrowing of a double to a float rounds down to the even value. *)
(***************************************************************************)
EXTENDS Integers, Sequences, FiniteSets, TLC

\* ------------------------------------------------------------------ bounds
MaxLayers == 3
MaxStack == 2
MaxOpacity == 4

\* --------------------------------------------------------------- constants
\* Qt::CheckState: Unchecked is 0, PartiallyChecked 1, Checked 2
Unchecked == 0
Checked == 2
CheckStates == Unchecked..Checked

Names == {"ground", "trees"}
Docs == {"doc1", "doc2"}
\* The document this model is bound to (LayerModel::mMapDocument).
mMapDocument == "doc1"
\* The layer objects: each has an immutable type.
LayerIds == 1..MaxLayers
LayerType(id) ==
    CASE id % 3 = 1 -> "TileLayerType"
      [] id % 3 = 2 -> "ObjectGroupType"
      [] OTHER -> "ImageLayerType"

Doubles == 0..MaxOpacity
ToFloat(d) == 2 * (d \div 2)
Floats == {ToFloat(d) : d \in Doubles}

Roles == {"DisplayRole", "DecorationRole", "EditRole", "CheckStateRole",
          "OpacityRole", "ToolTipRole"}

VARIABLES
    layers,      \* mMap's layers: a sequence of [id, name, visible, opacity]
    undoStack,   \* the undo stack's command list
    index,       \* the undo stack's index: commands 1..index are applied
    op,          \* the last call: its name and arguments
    ret,         \* what the last call returned
    signals,     \* the signals the last call emitted, in order
    base,        \* history: the layers when the undo stack was last empty
    tip,         \* history: the layers when every command was last applied
    intact,      \* history: no layer was inserted or removed since `base`
    undefined    \* a command ran on a layer index the map does not have

vars == <<layers, undoStack, index, op, ret, signals, base, tip, intact,
          undefined>>

\* ----------------------------------------------------------------- QVariant
IntValue(n) == [type |-> "int", v |-> n]
DoubleValue(d) == [type |-> "double", v |-> d]
StringValue(s) == [type |-> "string", v |-> s]
Invalid == [type |-> "invalid", v |-> 0]

\* QVariant::toInt: a string that is no number gives 0.
toInt(value) == IF value.type \in {"int", "double"} THEN value.v ELSE 0
\* QVariant::toDouble(&ok)
toDouble(value) ==
    IF value.type \in {"int", "double"}
    THEN [ok |-> TRUE, v |-> value.v]
    ELSE [ok |-> FALSE, v |-> 0]
\* QVariant::toString, of a string
toString(value) == value.v

\* ------------------------------------------------------------------ signals
Sig(name, arg, ls) == [name |-> name, arg |-> arg, count |-> Len(ls)]

\* ------------------------------------------------------------ index mapping
ValidIndex(row) == [valid |-> TRUE, row |-> row]
InvalidIndex == [valid |-> FALSE, row |-> -1]

toLayerIndex(ls, modelIndex) ==
    IF modelIndex.valid THEN Len(ls) - modelIndex.row - 1 ELSE -1

layerIndexToRow(ls, layerIndex) == Len(ls) - layerIndex - 1

layerAt(ls, layerIndex) == ls[layerIndex + 1]

\* ----------------------------------------------------- direct mutators
\* A context is what a command acts on: the layers and the signals so far.
setLayerVisible(c, layerIndex, visible) ==
    LET row == layerIndexToRow(c.layers, layerIndex)
        ls == [c.layers EXCEPT ![layerIndex + 1].visible = visible]
    IN  [layers |-> ls,
         sigs |-> c.sigs \o <<Sig("dataChanged", row, ls),
                              Sig("layerChanged", layerIndex, ls)>>]

setLayerOpacity(c, layerIndex, opacity) ==
    LET ls == [c.layers EXCEPT ![layerIndex + 1].opacity = opacity]
    IN  [layers |-> ls,
         sigs |-> c.sigs \o <<Sig("layerChanged", layerIndex, ls)>>]

renameLayer(c, layerIndex, name) ==
    LET row == layerIndexToRow(c.layers, layerIndex)
        ls == [c.layers EXCEPT ![layerIndex + 1].name = name]
    IN  [layers |-> ls,
         sigs |-> c.sigs \o <<Sig("layerAboutToBeRenamed", layerIndex, c.layers),
                              Sig("layerRenamed", layerIndex, ls),
                              Sig("dataChanged", row, ls),
                              Sig("layerChanged", layerIndex, ls)>>]

\* ------------------------------------------------------------ undo commands
SetLayerVisible(mapDocument, layerIndex, visible) ==
    [kind |-> "SetLayerVisible", mMapDocument |-> mapDocument,
     mLayerIndex |-> layerIndex, mVisible |-> visible,
     text |-> IF visible THEN "Show Layer" ELSE "Hide Layer"]

SetLayerOpacity(ls, mapDocument, layerIndex, opacity) ==
    [kind |-> "SetLayerOpacity", mMapDocument |-> mapDocument,
     mLayerIndex |-> layerIndex,
     mOldOpacity |-> layerAt(ls, layerIndex).opacity,
     mNewOpacity |-> ToFloat(opacity),
     text |-> "Change Layer Opacity"]

RenameLayer(mapDocument, layerIndex, name) ==
    [kind |-> "RenameLayer", mMapDocument |-> mapDocument,
     mLayerIndex |-> layerIndex, mName |-> name, text |-> "Rename Layer"]

Macro(text, children) == [kind |-> "Macro", text |-> text, children |-> children]

\* QUndoCommand::id(): only SetLayerOpacity overrides it.
id(cmd) ==
    IF cmd.kind = "SetLayerOpacity" THEN "Cmd_ChangeLayerOpacity" ELSE "none"

\* A swap that forgets to store the visibility it read.
swapKeepsPending(cmd, c) ==
    [cmd |-> cmd,
     ctx |-> setLayerVisible(c, cmd.mLayerIndex, cmd.mVisible)]

\* SetLayerVisible::swap: the command and the context after the swap.
swap(cmd, c) ==
    LET previousVisible == layerAt(c.layers, cmd.mLayerIndex).visible
    IN  [cmd |-> [cmd EXCEPT !.mVisible = previousVisible],
         ctx |-> setLayerVisible(c, cmd.mLayerIndex, cmd.mVisible)]

\* An undo that sets the new opacity.
opacityUndoSetsNew(cmd, c) ==
    [cmd |-> cmd, ctx |-> setLayerOpacity(c, cmd.mLayerIndex, cmd.mNewOpacity)]

\* SetLayerOpacity::undo and redo
opacityUndo(cmd, c) ==
    [cmd |-> cmd, ctx |-> setLayerOpacity(c, cmd.mLayerIndex, cmd.mOldOpacity)]

opacityRedo(cmd, c) ==
    [cmd |-> cmd, ctx |-> setLayerOpacity(c, cmd.mLayerIndex, cmd.mNewOpacity)]

\* A merge that compares the documents only.
mergeWithAnyLayer(cmd, other) ==
    IF ~(cmd.mMapDocument = other.mMapDocument)
    THEN [merged |-> FALSE, cmd |-> cmd]
    ELSE [merged |-> TRUE,
          cmd |-> [cmd EXCEPT !.mNewOpacity = other.mNewOpacity]]

\* A merge that takes the other command's old opacity as well.
mergeWithTakesOld(cmd, other) ==
    IF ~(cmd.mMapDocument = other.mMapDocument
         /\ cmd.mLayerIndex = other.mLayerIndex)
    THEN [merged |-> FALSE, cmd |-> cmd]
    ELSE [merged |-> TRUE,
          cmd |-> [cmd EXCEPT !.mOldOpacity = other.mOldOpacity,
                              !.mNewOpacity = other.mNewOpacity]]

\* SetLayerOpacity::mergeWith: whether it merged, and the receiver afterwards.
mergeWith(cmd, other) ==
    IF ~(cmd.mMapDocument = other.mMapDocument
         /\ cmd.mLayerIndex = other.mLayerIndex)
    THEN [merged |-> FALSE, cmd |-> cmd]
    ELSE [merged |-> TRUE,
          cmd |-> [cmd EXCEPT !.mNewOpacity = other.mNewOpacity]]

\* RenameLayer::swapName
swapName(cmd, c) ==
    LET previousName == layerAt(c.layers, cmd.mLayerIndex).name
    IN  [cmd |-> [cmd EXCEPT !.mName = previousName],
         ctx |-> renameLayer(c, cmd.mLayerIndex, cmd.mName)]

\* redo() and undo() of a command that is no macro
leafRedo(cmd, c) ==
    CASE cmd.kind = "SetLayerVisible" -> swap(cmd, c)
      [] cmd.kind = "SetLayerOpacity" -> opacityRedo(cmd, c)
      [] cmd.kind = "RenameLayer" -> swapName(cmd, c)

leafUndo(cmd, c) ==
    CASE cmd.kind = "SetLayerVisible" -> swap(cmd, c)
      [] cmd.kind = "SetLayerOpacity" -> opacityUndo(cmd, c)
      [] cmd.kind = "RenameLayer" -> swapName(cmd, c)

\* A macro redoes its children first to last and undoes them last to first.
RECURSIVE redoChildren(_, _, _)
redoChildren(children, i, c) ==
    IF i > Len(children) THEN [children |-> children, ctx |-> c]
    ELSE LET r == leafRedo(children[i], c)
         IN  redoChildren([children EXCEPT ![i] = r.cmd], i + 1, r.ctx)

RECURSIVE undoChildren(_, _, _)
undoChildren(children, i, c) ==
    IF i < 1 THEN [children |-> children, ctx |-> c]
    ELSE LET r == leafUndo(children[i], c)
         IN  undoChildren([children EXCEPT ![i] = r.cmd], i - 1, r.ctx)

commandRedo(cmd, c) ==
    IF cmd.kind = "Macro"
    THEN LET r == redoChildren(cmd.children, 1, c)
         IN  [cmd |-> [cmd EXCEPT !.children = r.children], ctx |-> r.ctx]
    ELSE leafRedo(cmd, c)

commandUndo(cmd, c) ==
    IF cmd.kind = "Macro"
    THEN LET r == undoChildren(cmd.children, Len(cmd.children), c)
         IN  [cmd |-> [cmd EXCEPT !.children = r.children], ctx |-> r.ctx]
    ELSE leafUndo(cmd, c)

\* The layer indices a command acts on.
targets(cmd) ==
    IF cmd.kind = "Macro"
    THEN {cmd.children[i].mLayerIndex : i \in 1..Len(cmd.children)}
    ELSE {cmd.mLayerIndex}

\* ----------------------------------------------------------------- undo stack
\* A stack state is [list, index, ctx].
\* QUndoStack::push outside a macro: redo the command, drop the undone
\* commands, then merge it into the command below or append it.
push(list, idx, cmd, c) ==
    LET r == commandRedo(cmd, c)
        kept == SubSeq(list, 1, idx)
        try_merge == /\ idx > 0
                     /\ id(kept[idx]) # "none"
                     /\ id(kept[idx]) = id(r.cmd)
        m == mergeWith(kept[idx], r.cmd)
    IN  IF try_merge /\ m.merged
        THEN [list |-> [kept EXCEPT ![idx] = m.cmd], index |-> idx,
              ctx |-> r.ctx]
        ELSE [list |-> Append(kept, r.cmd), index |-> idx + 1, ctx |-> r.ctx]

\* QUndoStack::push inside a macro: redo the command and append it to the
\* macro's children (a SetLayerVisible never merges).
pushChild(children, cmd, c) ==
    LET r == commandRedo(cmd, c)
    IN  [children |-> Append(children, r.cmd), ctx |-> r.ctx]

\* ------------------------------------------------------------ return values
Bool(b) == [type |-> "bool", v |-> b]
Void == [type |-> "void", v |-> 0]
Icon(name) == [type |-> "icon", v |-> name]
LayerPtr(layer) == [type |-> "layer", v |-> layer]

\* ------------------------------------------------------------------- data()
data(ls, modelIndex, role) ==
    LET layerIndex == toLayerIndex(ls, modelIndex)
        layer == layerAt(ls, layerIndex)
    IN  IF layerIndex < 0 THEN Invalid
        ELSE CASE role \in {"DisplayRole", "EditRole"} ->
                    StringValue(layer.name)
               [] role = "DecorationRole" ->
                    (CASE LayerType(layer.id) = "TileLayerType" ->
                            Icon("mTileLayerIcon")
                       [] LayerType(layer.id) = "ObjectGroupType" ->
                            Icon("mObjectGroupIcon")
                       [] LayerType(layer.id) = "ImageLayerType" ->
                            Icon("mImageLayerIcon"))
               [] role = "CheckStateRole" ->
                    IntValue(IF layer.visible THEN Checked ELSE Unchecked)
               [] role = "OpacityRole" -> DoubleValue(layer.opacity)
               [] OTHER -> Invalid

\* ---------------------------------------------------------------- setData()
\* The outcome of a call: what it returned, the undo stack and the context.
Outcome(r, list, idx, c) ==
    [ret |-> r, list |-> list, index |-> idx, ctx |-> c]

Pushed(r, p) == Outcome(r, p.list, p.index, p.ctx)

\* The CheckStateRole branch of setData.
setDataCheckState(ls, list, idx, layerIndex, value) ==
    LET layer == layerAt(ls, layerIndex)
        c == [layers |-> ls, sigs |-> <<>>]
        visible == (toInt(value) = Checked)
    IN  IF visible # layer.visible
        THEN Pushed(Bool(TRUE),
                    push(list, idx,
                         SetLayerVisible(mMapDocument, layerIndex, visible),
                         c))
        ELSE Outcome(Bool(TRUE), list, idx, c)

\* An OpacityRole branch that does not look at toDouble's ok.
setDataOpacityUnchecked(ls, list, idx, layerIndex, value) ==
    LET layer == layerAt(ls, layerIndex)
        c == [layers |-> ls, sigs |-> <<>>]
        opacity == toDouble(value)
    IN  IF layer.opacity # opacity.v
        THEN Pushed(Bool(TRUE),
                    push(list, idx,
                         SetLayerOpacity(ls, mMapDocument, layerIndex,
                                         opacity.v), c))
        ELSE Outcome(Bool(TRUE), list, idx, c)

\* The OpacityRole branch of setData.
setDataOpacity(ls, list, idx, layerIndex, value) ==
    LET layer == layerAt(ls, layerIndex)
        c == [layers |-> ls, sigs |-> <<>>]
        opacity == toDouble(value)
    IN  IF opacity.ok
        THEN IF layer.opacity # opacity.v
             THEN Pushed(Bool(TRUE),
                         push(list, idx,
                              SetLayerOpacity(ls, mMapDocument, layerIndex,
                                              opacity.v), c))
             ELSE Outcome(Bool(TRUE), list, idx, c)
        ELSE Outcome(Bool(FALSE), list, idx, c)

\* An EditRole branch that does not compare the names.
setDataNameAlways(ls, list, idx, layerIndex, value) ==
    LET c == [layers |-> ls, sigs |-> <<>>]
        newName == toString(value)
    IN  Pushed(Bool(TRUE),
               push(list, idx,
                    RenameLayer(mMapDocument, layerIndex, newName), c))

\* The EditRole branch of setData.
setDataName(ls, list, idx, layerIndex, value) ==
    LET layer == layerAt(ls, layerIndex)
        c == [layers |-> ls, sigs |-> <<>>]
        newName == toString(value)
    IN  IF layer.name # newName
        THEN Pushed(Bool(TRUE),
                    push(list, idx,
                         RenameLayer(mMapDocument, layerIndex, newName), c))
        ELSE Outcome(Bool(TRUE), list, idx, c)

setData(ls, list, idx, modelIndex, value, role) ==
    LET layerIndex == toLayerIndex(ls, modelIndex)
        c == [layers |-> ls, sigs |-> <<>>]
    IN  IF layerIndex < 0 THEN Outcome(Bool(FALSE), list, idx, c)
        ELSE IF role = "CheckStateRole"
        THEN setDataCheckState(ls, list, idx, layerIndex, value)
        ELSE IF role = "OpacityRole"
        THEN setDataOpacity(ls, list, idx, layerIndex, value)
        ELSE IF role = "EditRole"
        THEN setDataName(ls, list, idx, layerIndex, value)
        ELSE Outcome(Bool(FALSE), list, idx, c)

\* ------------------------------------------------------ toggleOtherLayers()
\* A first loop that does not skip layerIndex.
RECURSIVE noLayerVisible(_, _, _)
noLayerVisible(ls, layerIndex, i) ==
    IF i >= Len(ls) THEN TRUE
    ELSE IF layerAt(ls, i).visible THEN FALSE
    ELSE noLayerVisible(ls, layerIndex, i + 1)

\* The first loop: whether no layer other than layerIndex is visible.
RECURSIVE noOtherVisible(_, _, _)
noOtherVisible(ls, layerIndex, i) ==
    IF i >= Len(ls) THEN TRUE
    ELSE IF i = layerIndex THEN noOtherVisible(ls, layerIndex, i + 1)
    ELSE IF layerAt(ls, i).visible THEN FALSE
    ELSE noOtherVisible(ls, layerIndex, i + 1)

\* A second loop that pushes a SetLayerVisible for every other layer.
RECURSIVE pushOthersAll(_, _, _, _, _)
pushOthersAll(children, c, layerIndex, visibility, i) ==
    IF i >= Len(c.layers) THEN [children |-> children, ctx |-> c]
    ELSE IF i = layerIndex
    THEN pushOthersAll(children, c, layerIndex, visibility, i + 1)
    ELSE LET p == pushChild(children,
                            SetLayerVisible(mMapDocument, i, visibility), c)
         IN  pushOthersAll(p.children, p.ctx, layerIndex, visibility, i + 1)

\* The second loop: push a SetLayerVisible for each other layer that differs.
RECURSIVE pushOthers(_, _, _, _, _)
pushOthers(children, c, layerIndex, visibility, i) ==
    IF i >= Len(c.layers) THEN [children |-> children, ctx |-> c]
    ELSE IF i = layerIndex
    THEN pushOthers(children, c, layerIndex, visibility, i + 1)
    ELSE IF visibility # layerAt(c.layers, i).visible
    THEN LET p == pushChild(children,
                            SetLayerVisible(mMapDocument, i, visibility), c)
         IN  pushOthers(p.children, p.ctx, layerIndex, visibility, i + 1)
    ELSE pushOthers(children, c, layerIndex, visibility, i + 1)

\* A toggle that returns early only on an empty map.
toggleOtherLayersOnOne(ls, list, idx, layerIndex) ==
    LET c == [layers |-> ls, sigs |-> <<>>]
    IN  IF Len(ls) < 1 THEN [ret |-> Void, list |-> list, index |-> idx,
                             ctx |-> c]
        ELSE LET visibility == noOtherVisible(ls, layerIndex, 0)
                 text == IF visibility THEN "Show Other Layers"
                                       ELSE "Hide Other Layers"
                 p == pushOthers(<<>>, c, layerIndex, visibility, 0)
             IN  [ret |-> Void,
                  list |-> Append(SubSeq(list, 1, idx),
                                  Macro(text, p.children)),
                  index |-> idx + 1, ctx |-> p.ctx]

\* beginMacro drops the undone commands and opens the macro; endMacro makes
\* it one step of the stack.
toggleOtherLayers(ls, list, idx, layerIndex) ==
    LET c == [layers |-> ls, sigs |-> <<>>]
    IN  IF Len(ls) <= 1 THEN Outcome(Void, list, idx, c)
        ELSE LET visibility == noOtherVisible(ls, layerIndex, 0)
                 text == IF visibility THEN "Show Other Layers"
                                       ELSE "Hide Other Layers"
                 p == pushOthers(<<>>, c, layerIndex, visibility, 0)
             IN  Outcome(Void,
                         Append(SubSeq(list, 1, idx), Macro(text, p.children)),
                         idx + 1, p.ctx)

\* ------------------------------------------------------- structural changes
\* Map::insertLayer and Map::takeLayerAt
InsertAt(ls, i, layer) ==
    SubSeq(ls, 1, i) \o <<layer>> \o SubSeq(ls, i + 1, Len(ls))

RemoveAt(ls, i) == SubSeq(ls, 1, i) \o SubSeq(ls, i + 2, Len(ls))

\* An insertLayer that announces the row before the new layer's.
insertLayerRowBefore(ls, layerIndex, layer) ==
    LET row == layerIndexToRow(ls, layerIndex)
        after == InsertAt(ls, layerIndex, layer)
    IN  [ret |-> Void, layers |-> after,
         sigs |-> <<Sig("rowsAboutToBeInserted", row, ls),
                    Sig("rowsInserted", row, after),
                    Sig("layerAdded", layerIndex, after)>>]

insertLayer(ls, layerIndex, layer) ==
    LET row == layerIndexToRow(ls, layerIndex) + 1
        after == InsertAt(ls, layerIndex, layer)
    IN  [ret |-> Void, layers |-> after,
         sigs |-> <<Sig("rowsAboutToBeInserted", row, ls),
                    Sig("rowsInserted", row, after),
                    Sig("layerAdded", layerIndex, after)>>]

takeLayerAt(ls, layerIndex) ==
    LET row == layerIndexToRow(ls, layerIndex)
        layer == layerAt(ls, layerIndex)
        after == RemoveAt(ls, layerIndex)
    IN  [ret |-> LayerPtr(layer), layers |-> after,
         sigs |-> <<Sig("layerAboutToBeRemoved", layerIndex, ls),
                    Sig("rowsAboutToBeRemoved", row, ls),
                    Sig("rowsRemoved", row, after),
                    Sig("layerRemoved", layerIndex, after)>>]

\* ------------------------------------------------------------------ inputs
Layers == [id : LayerIds, name : Names, visible : BOOLEAN, opacity : Floats]

\* A layer as a new map has it: named "ground" and opaque.
Opaque == ToFloat(MaxOpacity)
PlainLayers == {l \in Layers : l.name = "ground" /\ l.opacity = Opaque}

Rows == {ValidIndex(r) : r \in 0..MaxLayers}
ModelIndexes == {InvalidIndex} \cup Rows

\* What a view passes for a role: a check state, a number or the text of a
\* line edit, a name.
ValuesFor(role, doubles) ==
    CASE role = "CheckStateRole" -> {IntValue(n) : n \in CheckStates}
      [] role = "OpacityRole" ->
            {DoubleValue(d) : d \in doubles} \cup {StringValue("opaque")}
      [] role = "EditRole" -> {StringValue(n) : n \in Names}
      [] OTHER -> {IntValue(Checked)}

\* -------------------------------------------------------------------- Init
\* A document is bound whose map has up to MaxLayers layers of layerSet and
\* whose undo stack is empty.
InitWith(layerSet) ==
    /\ \E n \in 0..MaxLayers :
          /\ layers \in [1..n -> layerSet]
          /\ \A i \in 1..n : layers[i].id = i
    /\ undoStack = <<>>
    /\ index = 0
    /\ op = "LayerModel"
    /\ ret = Void
    /\ signals = <<>>
    /\ base = layers
    /\ tip = layers
    /\ intact = TRUE
    /\ undefined = FALSE

Init == InitWith(Layers)

\* ----------------------------------------------------------------- actions
\* A call that may push on the undo stack took effect.
Edited(name, o) ==
    /\ o.index <= MaxStack
    /\ layers' = o.ctx.layers
    /\ undoStack' = o.list
    /\ index' = o.index
    /\ op' = name
    /\ ret' = o.ret
    /\ signals' = o.ctx.sigs
    /\ tip' = IF o.list # undoStack \/ o.index # index
              THEN (IF intact THEN o.ctx.layers ELSE <<>>)
              ELSE tip
    /\ UNCHANGED <<base, intact, undefined>>

Data(modelIndex, role) ==
    /\ ~undefined
    /\ op' = "data"
    /\ ret' = data(layers, modelIndex, role)
    /\ signals' = <<>>
    /\ UNCHANGED <<layers, undoStack, index, base, tip, intact, undefined>>

SetData(modelIndex, value, role) ==
    /\ ~undefined
    /\ Edited("setData",
              setData(layers, undoStack, index, modelIndex, value, role))

ToggleOtherLayers(layerIndex) ==
    /\ ~undefined
    /\ Edited("toggleOtherLayers",
              toggleOtherLayers(layers, undoStack, index, layerIndex))

\* A layer was inserted or removed: the commands on the undo stack keep
\* their layer indices (the source does not guard against this).
Restructured(name, r) ==
    /\ layers' = r.layers
    /\ op' = name
    /\ ret' = r.ret
    /\ signals' = r.sigs
    /\ intact' = (intact /\ undoStack = <<>>)
    /\ base' = IF intact' THEN r.layers ELSE <<>>
    /\ tip' = IF intact' THEN r.layers ELSE <<>>
    /\ UNCHANGED <<undoStack, index, undefined>>

InsertLayer(layerIndex, layer) ==
    /\ ~undefined
    /\ Len(layers) < MaxLayers
    /\ layerIndex \in 0..Len(layers)
    /\ \A i \in 1..Len(layers) : layers[i].id # layer.id
    /\ Restructured("insertLayer", insertLayer(layers, layerIndex, layer))

TakeLayerAt(layerIndex) ==
    /\ ~undefined
    /\ layerIndex \in 0..(Len(layers) - 1)
    /\ Restructured("takeLayerAt", takeLayerAt(layers, layerIndex))

\* QUndoStack::undo and redo.  A command whose layer index the map no longer
\* has reads past the end of the layer list: what follows is not defined.
InRange(cmd) == \A i \in targets(cmd) : i < Len(layers)

Stepped(name, cmd, at, r, idx) ==
    /\ op' = name
    /\ ret' = Void
    /\ UNCHANGED <<base, tip, intact>>
    /\ IF InRange(cmd)
       THEN /\ layers' = r.ctx.layers
            /\ undoStack' = [undoStack EXCEPT ![at] = r.cmd]
            /\ index' = idx
            /\ signals' = r.ctx.sigs
            /\ UNCHANGED undefined
       ELSE /\ undefined' = TRUE
            /\ signals' = <<>>
            /\ UNCHANGED <<layers, undoStack, index>>

Undo ==
    /\ ~undefined
    /\ index > 0
    /\ LET cmd == undoStack[index]
       IN  Stepped("undo", cmd, index,
                   IF InRange(cmd)
                   THEN commandUndo(cmd, [layers |-> layers, sigs |-> <<>>])
                   ELSE [cmd |-> cmd], index - 1)

Redo ==
    /\ ~undefined
    /\ index < Len(undoStack)
    /\ LET cmd == undoStack[index + 1]
       IN  Stepped("redo", cmd, index + 1,
                   IF InRange(cmd)
                   THEN commandRedo(cmd, [layers |-> layers, sigs |-> <<>>])
                   ELSE [cmd |-> cmd], index + 1)

\* The calls, with their arguments drawn from the given sets.
Reads(indexes, roles) ==
    \E modelIndex \in indexes, role \in roles : Data(modelIndex, role)

Edits(indexes, roles, doubles) ==
    \E modelIndex \in indexes, role \in roles :
        \E value \in ValuesFor(role, doubles) :
            SetData(modelIndex, value, role)

Toggles == \E layerIndex \in 0..(MaxLayers - 1) : ToggleOtherLayers(layerIndex)

Inserts(layerSet) ==
    \E layerIndex \in 0..MaxLayers, layer \in layerSet :
        InsertLayer(layerIndex, layer)

Takes == \E layerIndex \in 0..(MaxLayers - 1) : TakeLayerAt(layerIndex)

\* ------------------------------------------------------------ specifications
\* The whole model.
Next ==
    \/ Reads(ModelIndexes, Roles)
    \/ Edits(ModelIndexes, Roles, Doubles)
    \/ Toggles
    \/ Inserts(Layers)
    \/ Takes
    \/ Undo
    \/ Redo

Spec == Init /\ [][Next]_vars

\* The specifications below are parts of the whole model: each keeps the
\* calls some claims are about and draws their arguments from the sets named.

\* Showing and hiding layers, with undo and redo, on any map whose layers are
\* not inserted or removed.
InitVisibility == InitWith(PlainLayers)

NextVisibility ==
    \/ Edits(ModelIndexes, {"CheckStateRole"}, Doubles)
    \/ Toggles
    \/ Undo
    \/ Redo

SpecVisibility == InitVisibility /\ [][NextVisibility]_vars

\* Editing opacity, with undo and redo, starting from a map whose layers are
\* all visible.
InitOpacity == InitWith({l \in PlainLayers : l.visible})

NextOpacity ==
    \/ Edits(ModelIndexes, {"OpacityRole"}, Doubles)
    \/ Undo
    \/ Redo

SpecOpacity == InitOpacity /\ [][NextOpacity]_vars

\* Editing visibility and opacity (set to transparent or to the largest
\* value), with undo and redo, starting from a map whose layers are all
\* visible.
InitHistory == InitWith({l \in PlainLayers : l.visible})

NextHistory ==
    \/ Edits(Rows, {"CheckStateRole", "OpacityRole"}, {0, MaxOpacity})
    \/ Toggles
    \/ Undo
    \/ Redo

SpecHistory == InitHistory /\ [][NextHistory]_vars

\* The view's requests against any map: reads of every role, and edits of
\* every role requested while the undo stack is empty.
InitView == InitWith(PlainLayers)

NextView ==
    \/ Reads(ModelIndexes, Roles)
    \/ (undoStack = <<>> /\ Edits(ModelIndexes, Roles, Doubles))

SpecView == InitView /\ [][NextView]_vars

\* Inserting and removing layers.
InitLayers == InitWith(PlainLayers)

NextLayers ==
    \/ Inserts(PlainLayers)
    \/ Takes

SpecLayers == InitLayers /\ [][NextLayers]_vars

\* SetLayerOpacity::mergeWith on any two opacity commands: the receiver is the
\* one command on the undo stack, and each step merges another into it.
OpacityCommands ==
    [kind : {"SetLayerOpacity"}, mMapDocument : Docs,
     mLayerIndex : 0..(MaxLayers - 1), mOldOpacity : Floats,
     mNewOpacity : Floats, text : {"Change Layer Opacity"}]

InitMerge ==
    /\ layers = <<>>
    /\ undoStack \in [1..1 -> OpacityCommands]
    /\ index = 1
    /\ op = "LayerModel"
    /\ ret = Void
    /\ signals = <<>>
    /\ base = <<>>
    /\ tip = <<>>
    /\ intact = TRUE
    /\ undefined = FALSE

MergeWith(other) ==
    /\ op' = "mergeWith"
    /\ ret' = Bool(mergeWith(undoStack[1], other).merged)
    /\ undoStack' = <<mergeWith(undoStack[1], other).cmd>>
    /\ UNCHANGED <<layers, index, signals, base, tip, intact, undefined>>

NextMerge == \E other \in OpacityCommands : MergeWith(other)

SpecMerge == InitMerge /\ [][NextMerge]_vars

\* ===================================================================== claims
Ctx(ls) == [layers |-> ls, sigs |-> <<>>]

\* A step ran SetLayerVisible::swap on command c, which is at place k of the
\* undo stack: it exchanged the layer's visibility and the pending value,
\* and the next swap of the command (while nothing else touches the layer)
\* puts both back.
SwapStep(c, k) ==
    LET i == c.mLayerIndex
        again == swap(undoStack'[k], Ctx(layers'))
    IN  /\ layers'[i + 1].visible = c.mVisible
        /\ undoStack'[k].mVisible = layers[i + 1].visible
        /\ again.ctx.layers = layers
        /\ again.cmd = c

\* C1: for a SetLayerVisible on a valid layer index, with no other change to
\* the layer in between, two consecutive swaps (redo then undo, or undo then
\* redo) are the identity on the layer's visibility and on the command's
\* pending value: an undo after the redo restores the visibility from before
\* the redo, a redo after the undo restores the toggled one.
C1_SwapTwiceIsIdentity ==
    [][/\ (Undo /\ undoStack[index].kind = "SetLayerVisible")
            => SwapStep(undoStack[index], index)
       /\ (Redo /\ undoStack[index + 1].kind = "SetLayerVisible")
            => SwapStep(undoStack[index + 1], index + 1)
       /\ (op' = "setData" /\ index' = index + 1
             /\ undoStack'[index'].kind = "SetLayerVisible")
            => swap(undoStack'[index'], Ctx(layers')).ctx.layers = layers
      ]_vars

\* A SetLayerVisible was undone and then redone, and the layers are as they
\* were before the undo.
C1_Witness ==
    /\ op = "redo"
    /\ index = Len(undoStack)
    /\ index >= 1
    /\ undoStack[index].kind = "SetLayerVisible"
    /\ layers = tip
    /\ layers # base

\* An opacity edit of layer i to the double d is merged into command A, the
\* last applied command, which is an opacity command of the same layer.
MergedInto(A, i, d) ==
    LET merged == undoStack'[index]
        undone == commandUndo(merged, Ctx(layers'))
        redone == commandRedo(undone.cmd, undone.ctx)
    IN  /\ index' = index
        /\ Len(undoStack') = index
        /\ merged.mOldOpacity = A.mOldOpacity
        /\ merged.mNewOpacity = ToFloat(d)
        /\ layerAt(undone.ctx.layers, i).opacity = A.mOldOpacity
        /\ layerAt(redone.ctx.layers, i).opacity = ToFloat(d)

\* C2: when an opacity command A (old a, new b) merges a later opacity
\* command B (old b, new c) on the same document and layer, the merge
\* succeeds (one command stays on the stack), A's old value stays a and its
\* new value becomes c; undoing the merged command sets the layer's opacity
\* to a and redoing it sets the opacity to c.
C2_MergeKeepsOldTakesNew ==
    [][/\ (op' = "setData" /\ index > 0
             /\ undoStack[index].kind = "SetLayerOpacity")
            => LET A == undoStack[index]
                   i == A.mLayerIndex
                   r == layerIndexToRow(layers, i)
               IN  \A d \in Doubles :
                     (/\ ToFloat(d) = layerAt(layers', i).opacity
                      /\ A.mNewOpacity = layerAt(layers, i).opacity
                      /\ layerAt(layers, i).opacity # d
                      /\ SetData(ValidIndex(r), DoubleValue(d),
                                 "OpacityRole"))
                     => MergedInto(A, i, d)
       /\ (Undo /\ undoStack[index].kind = "SetLayerOpacity")
            => layerAt(layers', undoStack[index].mLayerIndex).opacity
                 = undoStack[index].mOldOpacity
       /\ (Redo /\ undoStack[index + 1].kind = "SetLayerOpacity")
            => layerAt(layers', undoStack[index + 1].mLayerIndex).opacity
                 = undoStack[index + 1].mNewOpacity
      ]_vars

\* An edit away from the first opacity and an edit back to it were merged
\* into one command: no single edit sets a layer to the opacity it has.
C2_Witness ==
    /\ op = "setData"
    /\ signals # <<>>
    /\ index = 1
    /\ Len(undoStack) = 1
    /\ undoStack[1].kind = "SetLayerOpacity"
    /\ undoStack[1].mOldOpacity = Opaque
    /\ undoStack[1].mNewOpacity = Opaque
    /\ layers = base

\* C3: mergeWith called with an opacity command of a different document or
\* of a different layer index returns false and leaves the receiver's old
\* and new opacity as they were.
C3_MergeRejectsOtherTarget ==
    [][\A other \in OpacityCommands :
         (/\ op' = "mergeWith"
          /\ \/ other.mMapDocument # undoStack[1].mMapDocument
             \/ other.mLayerIndex # undoStack[1].mLayerIndex
          /\ MergeWith(other))
         => /\ ret'.v = FALSE
            /\ undoStack'[1].mOldOpacity = undoStack[1].mOldOpacity
            /\ undoStack'[1].mNewOpacity = undoStack[1].mNewOpacity
      ]_vars

\* A merge was refused, and the receiver still has different old and new
\* opacities.
C3_Witness ==
    /\ op = "mergeWith"
    /\ ret.type = "bool"
    /\ ret.v = FALSE
    /\ undoStack[1].mOldOpacity # undoStack[1].mNewOpacity

\* The layer indices other than i, and whether all of those layers are hidden.
Others(ls, i) == (0..(Len(ls) - 1)) \ {i}

AllOthersHidden(ls, i) == \A j \in Others(ls, i) : ~layerAt(ls, j).visible

\* C4: after toggleOtherLayers(i) on a map with at least two layers, every
\* layer other than i has the visibility T, which is true exactly when every
\* layer other than i was hidden before the call; the visibility of layer i
\* is unchanged; the macro is labelled "Show Other Layers" when T is true and
\* "Hide Other Layers" when T is false.
C4_ToggleSetsOthersToTarget ==
    [][\A i \in 0..(MaxLayers - 1) :
         (/\ op' = "toggleOtherLayers"
          /\ Len(layers) >= 2
          /\ ToggleOtherLayers(i))
         => LET T == AllOthersHidden(layers, i)
            IN  /\ Len(layers') = Len(layers)
                /\ \A j \in Others(layers, i) : layerAt(layers', j).visible = T
                /\ i < Len(layers)
                     => layerAt(layers', i).visible = layerAt(layers, i).visible
                /\ undoStack'[index'].kind = "Macro"
                /\ undoStack'[index'].text =
                     IF T THEN "Show Other Layers" ELSE "Hide Other Layers"
      ]_vars

\* The other two layers of a map of three were shown, and the third layer is
\* still hidden.
C4_Witness ==
    /\ op = "toggleOtherLayers"
    /\ Len(layers) = 3
    /\ index = Len(undoStack)
    /\ index >= 1
    /\ undoStack[index].kind = "Macro"
    /\ undoStack[index].text = "Show Other Layers"
    /\ Len(undoStack[index].children) = 2
    /\ Cardinality({j \in 1..3 : layers[j].visible}) = 2

\* C5: toggleOtherLayers(i) on a map with at least two layers puts exactly
\* one step, a macro, on top of the applied commands (the undone ones are
\* dropped, as by any push); the macro holds one SetLayerVisible for each
\* layer other than i whose visibility differed from the target and none for
\* any other layer; undoing the macro restores every layer's visibility from
\* before the call, and redoing it sets the target again.
C5_ToggleIsOneUndoStep ==
    [][\A i \in 0..(MaxLayers - 1) :
         (/\ op' = "toggleOtherLayers"
          /\ Len(layers) >= 2
          /\ ToggleOtherLayers(i))
         => LET T == AllOthersHidden(layers, i)
                differing == {j \in Others(layers, i) :
                                layerAt(layers, j).visible # T}
                macro == undoStack'[index']
                undone == commandUndo(macro, Ctx(layers'))
                redone == commandRedo(undone.cmd, undone.ctx)
            IN  /\ index' = index + 1
                /\ undoStack' = Append(SubSeq(undoStack, 1, index), macro)
                /\ macro.kind = "Macro"
                /\ Len(macro.children) = Cardinality(differing)
                /\ \A k \in 1..Len(macro.children) :
                     /\ macro.children[k].kind = "SetLayerVisible"
                     /\ macro.children[k].mLayerIndex \in differing
                /\ \A j \in differing : \E k \in 1..Len(macro.children) :
                     macro.children[k].mLayerIndex = j
                /\ undone.ctx.layers = layers
                /\ redone.ctx.layers = layers'
      ]_vars

\* The one macro of a toggle that changed two layers was undone, and the
\* layers are as they were before the toggle.
C5_Witness ==
    /\ op = "undo"
    /\ index = 0
    /\ Len(undoStack) = 1
    /\ undoStack[1].kind = "Macro"
    /\ Len(undoStack[1].children) = 2
    /\ layers = base

\* C6: toggleOtherLayers on a map with fewer than two layers creates no
\* command and no macro: the undo stack and every layer are unchanged.
C6_ToggleNeedsTwoLayers ==
    [][\A i \in 0..(MaxLayers - 1) :
         (/\ op' = "toggleOtherLayers"
          /\ Len(layers) <= 1
          /\ ToggleOtherLayers(i))
         => /\ UNCHANGED <<layers, undoStack, index>>
            /\ signals' = <<>>
      ]_vars

\* toggleOtherLayers was called on a map of one layer.
C6_Witness ==
    /\ op = "toggleOtherLayers"
    /\ Len(layers) = 1
    /\ undoStack = <<>>
    /\ index = 0

\* The value is the layer's current value of the role's field.
EqualsCurrent(layer, role, value) ==
    CASE role = "CheckStateRole" ->
            \/ value.v = Checked /\ layer.visible
            \/ value.v = Unchecked /\ ~layer.visible
      [] role = "OpacityRole" ->
            value.type = "double" /\ value.v = layer.opacity
      [] role = "EditRole" -> value.v = layer.name
      [] OTHER -> FALSE

\* C7: setData on a valid row with a value equal to the layer's current
\* value (check state, name or opacity) pushes no command, leaves the layer
\* unchanged, raises no notification, and returns true.
C7_SameValueIsNoOp ==
    [][op' = "setData" =>
         \A r \in 0..(Len(layers) - 1),
            role \in {"CheckStateRole", "OpacityRole", "EditRole"} :
            \A value \in ValuesFor(role, Doubles) :
               (/\ EqualsCurrent(layerAt(layers, Len(layers) - r - 1),
                                 role, value)
                /\ SetData(ValidIndex(r), value, role))
               => /\ UNCHANGED <<layers, undoStack, index>>
                  /\ signals' = <<>>
                  /\ ret'.v = TRUE
      ]_vars

\* setData returned true on a map with layers without pushing or notifying.
C7_Witness ==
    /\ op = "setData"
    /\ ret.type = "bool"
    /\ ret.v = TRUE
    /\ signals = <<>>
    /\ undoStack = <<>>
    /\ Len(layers) >= 1

\* The index is invalid, or its row has no layer.
NoLayer(modelIndex) == ~modelIndex.valid \/ modelIndex.row >= Len(layers)

\* C8: data() with an invalid row, or a row that has no layer, returns an
\* empty result; setData() with such a row, with an unrecognised role, or
\* with an opacity that is no number returns false; in all these cases no
\* command is pushed, no layer changes and nothing is notified.
C8_InvalidRequestsAreNoOps ==
    [][/\ op' = "data" =>
            \A modelIndex \in ModelIndexes, role \in Roles :
               (NoLayer(modelIndex) /\ Data(modelIndex, role))
               => /\ ret'.type = "invalid"
                  /\ UNCHANGED <<layers, undoStack, index>>
                  /\ signals' = <<>>
       /\ op' = "setData" =>
            \A modelIndex \in ModelIndexes, role \in Roles :
               \A value \in ValuesFor(role, Doubles) :
                  (/\ \/ NoLayer(modelIndex)
                      \/ role \notin {"CheckStateRole", "OpacityRole",
                                      "EditRole"}
                      \/ role = "OpacityRole" /\ value.type = "string"
                   /\ SetData(modelIndex, value, role))
                  => /\ ret'.v = FALSE
                     /\ UNCHANGED <<layers, undoStack, index>>
                     /\ signals' = <<>>
      ]_vars

\* setData returned false on a map with layers.
C8_Witness ==
    /\ op = "setData"
    /\ ret.type = "bool"
    /\ ret.v = FALSE
    /\ signals = <<>>
    /\ undoStack = <<>>
    /\ Len(layers) >= 1

\* The places of the signals of a name.
Named(sigs, name) == {k \in 1..Len(sigs) : sigs[k].name = name}

\* The one signal of this name in sigs has this argument.
OneWith(sigs, name, arg) ==
    /\ Cardinality(Named(sigs, name)) = 1
    /\ \A k \in Named(sigs, name) : sigs[k].arg = arg

\* C9: the row of a structural notification is the display row of the layer,
\* row = layerCount - layerIndex - 1.  insertLayer announces one inserted
\* row, the row of the new layer once it is inserted, and raises "layer
\* added" when the map holds the layer.  takeLayerAt raises "about to be
\* removed" before the map changes, announces one removed row, the row the
\* layer had, raises "removed" when the map no longer holds it, and returns
\* the layer.
C9_StructuralNotifications ==
    [][/\ op' = "insertLayer" =>
            \A i \in 0..Len(layers), layer \in PlainLayers :
               InsertLayer(i, layer)
               => LET row == Len(layers') - i - 1
                      last == signals'[Len(signals')]
                  IN  /\ Len(layers') = Len(layers) + 1
                      /\ layerAt(layers', i) = layer
                      /\ OneWith(signals', "rowsAboutToBeInserted", row)
                      /\ OneWith(signals', "rowsInserted", row)
                      /\ OneWith(signals', "layerAdded", i)
                      /\ last.name = "layerAdded"
                      /\ last.count = Len(layers')
       /\ op' = "takeLayerAt" =>
            \A i \in 0..(Len(layers) - 1) :
               TakeLayerAt(i)
               => LET row == Len(layers) - i - 1
                      first == signals'[1]
                      last == signals'[Len(signals')]
                  IN  /\ first.name = "layerAboutToBeRemoved"
                      /\ first.arg = i
                      /\ first.count = Len(layers)
                      /\ OneWith(signals', "rowsAboutToBeRemoved", row)
                      /\ OneWith(signals', "rowsRemoved", row)
                      /\ OneWith(signals', "layerRemoved", i)
                      /\ last.name = "layerRemoved"
                      /\ last.count = Len(layers) - 1
                      /\ ret'.type = "layer"
                      /\ ret'.v = layerAt(layers, i)
                      /\ Len(layers') = Len(layers) - 1
                      /\ \A k \in 1..Len(layers') : layers'[k].id # ret'.v.id
      ]_vars

\* The bottom layer of three was taken: the row removed was the last one.
C9_Witness ==
    /\ op = "takeLayerAt"
    /\ ret.type = "layer"
    /\ Len(layers) = 2
    /\ OneWith(signals, "rowsRemoved", 2)
    /\ OneWith(signals, "layerRemoved", 0)

\* C10: starting from an empty undo stack, after any sequence of accepted
\* visibility and opacity edits and toggleOtherLayers calls, with no layer
\* inserted or removed, undoing every step restores every layer to its
\* initial state, and redoing every step restores the layers as they were
\* before the undos.
C10_UndoAllRedoAll ==
    intact =>
        /\ index = 0 => layers = base
        /\ index = Len(undoStack) => layers = tip

\* Two steps, one of them on opacity, were undone: the layers are the initial
\* ones and differ from those before the undos.
C10_Witness ==
    /\ op = "undo"
    /\ intact
    /\ index = 0
    /\ Len(undoStack) = 2
    /\ \E k \in 1..2 : /\ undoStack[k].kind = "SetLayerOpacity"
                       /\ undoStack[k].mOldOpacity # undoStack[k].mNewOpacity
    /\ \E k \in 1..2 : undoStack[k].kind = "Macro"
    /\ layers = base
    /\ tip # base
====
